---- MODULE Spec2Model ----
(***************************************************************************)
(* build_lib.py: the conversion of one component description (name,        *)
(* fields, nested pin lists) into the lines of a KiCad symbol library.     *)
(*                                                                         *)
(* Python values are modelled as tagged records, so that the shape         *)
(* sniffing of normalise_pins (indexing, "is None", isinstance(.., str))   *)
(* and the exceptions it can run into are computed as Python computes      *)
(* them.  An exception is the value Exc(e); every operator that evaluates  *)
(* a Python expression returns either its value or the first exception     *)
(* the evaluation raises.                                                  *)
(***************************************************************************)
EXTENDS Integers, Sequences, FiniteSets, TLC

VARIABLES
    inp,        \* the description the input document was written from
    elm,        \* library(): the component dictionary being converted
    pc,         \* library(): position in the loop body
    units,      \* library(): units = normalise_pins(elm['pins'])
    out,        \* library(): the list of output lines built so far
    geoms,      \* fields(): geoms = [geometry(unit, n) for unit in units]
    ret,        \* the value library() returned (NoValue before, or on a raise)
    exc,        \* the exception that left library() ("" when none)
    gunit,      \* geometry(): argument unit
    gnum,       \* geometry(): argument longest_num
    gbase,      \* geometry(): local width after line 80, before the nudge
    gret        \* geometry(): the returned (width, height, length)

vars == <<inp, elm, pc, units, out, geoms, ret, exc, gunit, gnum, gbase, gret>>

-----------------------------------------------------------------------------
(* Bounds of the model *)

MaxUnits == 2
MaxSides == 3
MaxGroups == 2
MaxPins == 2
MaxOrderCodes == 2
MaxNameLen == 20
MaxNumLen == 20

-----------------------------------------------------------------------------
(* Python values *)

PyNone == [ty |-> "None"]
PyStr(s) == [ty |-> "str", s |-> s]
PyInt(i) == [ty |-> "int", i |-> i]
PyList(xs) == [ty |-> "list", xs |-> xs]
PyTuple(xs) == [ty |-> "tuple", xs |-> xs]
Exc(e) == [ty |-> "exc", e |-> e]
IsExc(v) == v.ty = "exc"
NoValue == [ty |-> "novalue"]

\* v[i] for a non-negative index i
Idx(v, i) ==
    IF IsExc(v) THEN v
    ELSE IF v.ty \in {"list", "tuple"}
         THEN IF i < Len(v.xs) THEN v.xs[i + 1] ELSE Exc("IndexError")
    ELSE IF v.ty = "str"
         THEN IF i < Len(v.s) THEN PyStr(<<v.s[i + 1]>>) ELSE Exc("IndexError")
    ELSE Exc("TypeError")

\* whether "for x in v" and len(v) are defined for v
IsSized(v) == v.ty \in {"list", "tuple", "str"}

\* the elements "for x in v" visits
Elems(v) ==
    IF v.ty \in {"list", "tuple"} THEN v.xs ELSE [k \in 1..Len(v.s) |-> PyStr(<<v.s[k]>>)]

\* len(v)
PyLen(v) ==
    IF IsExc(v) THEN v
    ELSE IF IsSized(v) THEN PyInt(Len(Elems(v)))
    ELSE Exc("TypeError")

\* bool(v) of a list or string
Truthy(v) == IsSized(v) /\ Len(Elems(v)) > 0

DigitChars == <<"0", "1", "2", "3", "4", "5", "6", "7", "8", "9">>

RECURSIVE Decimal(_)
\* the decimal digits of a non-negative integer
Decimal(k) ==
    IF k < 10 THEN <<DigitChars[k + 1]>>
    ELSE Decimal(k \div 10) \o <<DigitChars[(k % 10) + 1]>>

\* str(v), as str() and "{}".format(v) render it
Str(v) ==
    IF IsExc(v) THEN v
    ELSE IF v.ty = "str" THEN v
    ELSE IF v.ty = "int"
         THEN PyStr(IF v.i < 0 THEN <<"-">> \o Decimal(-v.i) ELSE Decimal(v.i))
    ELSE IF v.ty = "None" THEN PyStr(<<"N", "o", "n", "e">>)
    ELSE Exc("ReprNotModelled")

\* the first exception in a sequence of results, or NoValue
FirstExc(rs) ==
    IF \E k \in 1..Len(rs) : IsExc(rs[k])
    THEN rs[CHOOSE k \in 1..Len(rs) :
                IsExc(rs[k]) /\ \A j \in 1..(k - 1) : ~IsExc(rs[j])]
    ELSE NoValue

\* max(...) of a sequence of results: integers or exceptions
PyMax(rs) ==
    IF \E k \in 1..Len(rs) : IsExc(rs[k]) THEN FirstExc(rs)
    ELSE IF Len(rs) = 0 THEN Exc("ValueError")
    ELSE PyInt(CHOOSE m \in {rs[k].i : k \in 1..Len(rs)} :
                   \A k \in 1..Len(rs) : rs[k].i <= m)

\* sum(...) of a sequence of results: integers or exceptions
RECURSIVE SumInts(_)
SumInts(rs) == IF Len(rs) = 0 THEN 0 ELSE Head(rs).i + SumInts(Tail(rs))

PySum(rs) ==
    IF \E k \in 1..Len(rs) : IsExc(rs[k]) THEN FirstExc(rs)
    ELSE PyInt(SumInts(rs))

-----------------------------------------------------------------------------
(* The pin description of the input document *)

Chars(c, k) == [j \in 1..k |-> c]

RECURSIVE Pow100(_)
Pow100(g) == IF g = 0 THEN 1 ELSE 100 * Pow100(g - 1)

RECURSIVE Pow10(_)
Pow10(g) == IF g = 0 THEN 1 ELSE 10 * Pow10(g - 1)

TypeNames == << <<"i", "n">>, <<"o", "c">>, <<"o", "d">>,
                <<"p", "w", "r", "i", "n">> >>

NameSchemes == {"str", "int", "intlater"}

\* pin p of group g of the side at position k of a unit: (name, number, type)
Pin(k, g, p, scheme) ==
    LET strname == PyStr(Chars(IF k = 1 THEN "L" ELSE "R", p + g - 1))
        intname == PyInt(10 * g + p)
        name == IF scheme = "str" THEN strname
                ELSE IF scheme = "int" THEN intname
                ELSE IF g = 1 /\ p = 1 THEN strname ELSE intname
        num == IF k = 1 THEN PyInt(p * Pow100(g - 1))
               ELSE Str(PyInt(p * Pow10(g - 1)))
        t == PyStr(TypeNames[((g + p) % 4) + 1])
    IN PyList(<<name, num, t>>)

Group(k, g, size, scheme) == PyList([p \in 1..size |-> Pin(k, g, p, scheme)])

\* one side: a list of groups, gs giving the number of pins of each
Side(k, gs, scheme) ==
    PyList([g \in 1..Len(gs) |-> Group(k, g, gs[g], scheme)])

\* the marker of an empty left side: its first group's first pin is None
Marker == PyList(<<PyList(<<PyNone>>)>>)

GroupShapes ==
    UNION {[1..len -> 1..MaxPins] : len \in 1..MaxGroups}

\* the groups of the sides after the first
OtherShape(gs) == [g \in 1..Len(gs) |-> MaxPins + 1 - gs[g]]

UnitShapes ==
    {[n |-> 0, first |-> "groups"]}
    \cup {[n |-> n, first |-> f] : n \in 1..MaxSides, f \in {"marker", "groups"}}

ValidUnitShapes ==
    {[n |-> 1, first |-> "groups"], [n |-> 2, first |-> "marker"],
     [n |-> 2, first |-> "groups"]}

\* one unit: the list of its side lists
UnitPins(shape, gs, scheme) ==
    PyList([k \in 1..shape.n |->
              IF k = 1
              THEN IF shape.first = "marker" THEN Marker ELSE Side(1, gs, scheme)
              ELSE Side(k, OtherShape(gs), scheme)])

\* the value of the key pins: one unit, or a list of units
Pins(d) ==
    IF d.multi
    THEN PyList([u \in 1..Len(d.shapes) |-> UnitPins(d.shapes[u], d.gs, d.scheme)])
    ELSE UnitPins(d.shapes[1], d.gs, d.scheme)

-----------------------------------------------------------------------------
(* normalise_pins *)

\* NormaliseUnit without the test for the marker of an empty left side
NormaliseUnitNoMarker(unit) ==
    LET n == PyLen(unit)
    IN IF IsExc(n) THEN n
       ELSE IF n.i = 1 THEN PyTuple(<<Idx(unit, 0), PyList(<<>>)>>)
       ELSE IF n.i = 2 THEN PyTuple(<<Idx(unit, 0), Idx(unit, 1)>>)
       ELSE Exc("ValueError")

\* the loop body of normalise_pins for one unit: the tuple appended, or the
\* exception raised
NormaliseUnit(unit) ==
    LET n == PyLen(unit)
        probe == Idx(Idx(Idx(unit, 0), 0), 0)
    IN IF IsExc(n) THEN n
       ELSE IF n.i = 1 THEN PyTuple(<<Idx(unit, 0), PyList(<<>>)>>)
       ELSE IF n.i = 2
            THEN IF IsExc(probe) THEN probe
                 ELSE IF probe.ty = "None"
                      THEN PyTuple(<<PyList(<<>>), Idx(unit, 1)>>)
                 ELSE PyTuple(<<Idx(unit, 0), Idx(unit, 1)>>)
       ELSE Exc("ValueError")

\* the loop of normalise_pins over the units: the list of (left, right)
\* tuples, or the exception raised
NormaliseLoop(us) ==
    IF ~IsSized(us) THEN Exc("TypeError")
    ELSE LET output == [u \in 1..Len(Elems(us)) |-> NormaliseUnit(Elems(us)[u])]
         IN IF IsExc(FirstExc(output)) THEN FirstExc(output) ELSE PyList(output)

\* lines 111-114: what might be the first pin or the first group of pins
FirstPinOrGrp(pins, probe) ==
    IF IsExc(probe) THEN probe
    ELSE IF probe.ty = "None" THEN Idx(Idx(Idx(pins, 1), 0), 0)
    ELSE probe

\* lines 115-132, given first_pin_or_grp[0]
NormaliseFrom(pins, first0) ==
    IF IsExc(first0) THEN first0
    ELSE IF first0.ty = "str" THEN NormaliseLoop(PyList(<<pins>>))
    ELSE NormaliseLoop(pins)

normalise_pins(pins) ==
    NormaliseFrom(pins, Idx(FirstPinOrGrp(pins, Idx(Idx(Idx(pins, 0), 0), 0)), 0))

-----------------------------------------------------------------------------
(* longest_num and geometry *)

\* len(str(p[1]))
NumLen(p) == PyLen(Str(Idx(p, 1)))

\* len(p[0])
NameLen(p) == PyLen(Idx(p, 0))

\* the length a comprehension measures in pin p: of its number (longest_num)
\* or of its name (geometry)
PinLen(p, what) == IF what = "num" THEN NumLen(p) ELSE NameLen(p)

\* max(len(..) for p in grp)
GroupMax(grp, what) ==
    IF IsExc(grp) THEN grp
    ELSE IF ~IsSized(grp) THEN Exc("TypeError")
    ELSE PyMax([k \in 1..Len(Elems(grp)) |-> PinLen(Elems(grp)[k], what)])

\* max([0] + [max(len(..) for p in grp) for grp in side])
SideMax(side, what) ==
    IF IsExc(side) THEN side
    ELSE IF ~IsSized(side) THEN Exc("TypeError")
    ELSE PyMax(<<PyInt(0)>> \o
               [k \in 1..Len(Elems(side)) |-> GroupMax(Elems(side)[k], what)])

\* max(the maximum of the left groups, the maximum of the right groups)
UnitMax(unit, what) ==
    PyMax(<<SideMax(Idx(unit, 0), what), SideMax(Idx(unit, 1), what)>>)

longest_num(us) ==
    PyMax([u \in 1..Len(Elems(us)) |-> UnitMax(Elems(us)[u], "num")])

\* length = max(100, longest_num * 50)
StubLength(n) == IF n * 50 > 100 THEN n * 50 ELSE 100

\* TextWidth without the rounding
TextWidthUnrounded(longest_name) == (longest_name + 1) * 50

\* width = (longest_name + 1) * 50; width += width % 100
TextWidth(longest_name) ==
    LET width == (longest_name + 1) * 50
    IN width + (width % 100)

\* the width after "if left_pins and right_pins: width *= 2"
BaseWidth(unit, longest_name) ==
    IF Truthy(Idx(unit, 0)) /\ Truthy(Idx(unit, 1))
    THEN TextWidth(longest_name) * 2
    ELSE TextWidth(longest_name)

\* NudgeWidth adding the remainder once, not twice
NudgeWidthOnce(width, length) ==
    IF ((width \div 2) + length) % 100 # 0
    THEN width + (((width \div 2) + length) % 100)
    ELSE width

\* if ((width//2)+length) % 100 != 0: width += 2 * (((width//2)+length) % 100)
NudgeWidth(width, length) ==
    IF ((width \div 2) + length) % 100 # 0
    THEN width + 2 * (((width \div 2) + length) % 100)
    ELSE width

\* n_pins + n_groups - 1 of one side
SideRows(side) ==
    LET n_pins == PySum([k \in 1..Len(Elems(side)) |-> PyLen(Elems(side)[k])])
    IN IF IsExc(n_pins) THEN n_pins
       ELSE PyInt(n_pins.i + Len(Elems(side)) - 1)

\* OddHeight without the extra row
HeightUnadjusted(height) == height

\* if (height // 100) % 2 == 0: height += 100
OddHeight(height) ==
    IF (height \div 100) % 2 = 0 THEN height + 100 ELSE height

\* lines 89-96: the height, given the rows each side needs
HeightOf(rows) ==
    IF IsExc(rows) THEN rows ELSE PyInt(OddHeight(100 * rows.i))

\* the height geometry returns
UnitHeight(unit) ==
    HeightOf(PyMax(<<SideRows(Idx(unit, 0)), SideRows(Idx(unit, 1))>>))

\* lines 77-98, given length, longest_name and height
GeometryFrom(unit, length, longest_name, height) ==
    IF IsExc(longest_name) THEN longest_name
    ELSE IF IsExc(height) THEN height
    ELSE PyTuple(<<NudgeWidth(BaseWidth(unit, longest_name.i), length),
                   height.i, length>>)

\* (width, height, length), or the exception raised
geometry(unit, n) ==
    GeometryFrom(unit, StubLength(n), UnitMax(unit, "name"), UnitHeight(unit))

\* max(g[k] for g in gs) of a list of geometry tuples
GeomMax(gs, k) ==
    CHOOSE m \in {gs[u].xs[k] : u \in 1..Len(gs)} :
        \A u \in 1..Len(gs) : gs[u].xs[k] <= m

-----------------------------------------------------------------------------
(* fields *)

ConfGet(conf, key, default) ==
    IF key \in DOMAIN conf THEN conf[key] ELSE default

FieldLine(idx, text, x, y, vis, label) ==
    [ty |-> "F", idx |-> idx, text |-> text, x |-> x, y |-> y,
     vis |-> vis, label |-> label]

\* OrderCodeIndex starting at the datasheet's index
OrderCodeIndexFrom3(idx) == idx + 3

\* idx + 4, the index of the idx-th order code (idx from 0)
OrderCodeIndex(idx) == idx + 4

OrderCodeLines(ordercodes, field_x, field_y) ==
    [k \in 1..Len(ordercodes) |->
        FieldLine(OrderCodeIndex(k - 1), ordercodes[k][2], field_x,
                  -field_y - (300 + (k - 1) * 100), "I", <<ordercodes[k][1]>>)]

\* the local geoms of fields: every unit's geometry
UnitGeoms(us, n) == [u \in 1..Len(Elems(us)) |-> geometry(Elems(us)[u], n)]

\* lines 145-171: the lines, given field_x and field_y
FieldList(conf, field_x, field_y) ==
    IF "name" \notin DOMAIN conf THEN Exc("KeyError")
    ELSE PyList(
         <<FieldLine(0, ConfGet(conf, "designator", "IC"), field_x, field_y,
                     "V", <<>>),
           FieldLine(1, conf["name"], field_x, -field_y, "V", <<>>),
           IF "footprint" \in DOMAIN conf
           THEN FieldLine(2, conf["footprint"], field_x, -field_y - 100,
                          "I", <<>>)
           ELSE FieldLine(2, "", field_x, -field_y - 100, "I", <<>>),
           IF "datasheet" \in DOMAIN conf
           THEN FieldLine(3, conf["datasheet"], field_x, -field_y - 200,
                          "I", <<>>)
           ELSE FieldLine(3, "", field_x, -field_y - 200, "I", <<>>)>>
         \o OrderCodeLines(ConfGet(conf, "ordercodes", <<>>), field_x, field_y))

\* lines 138-171, given geoms
FieldsOfGeoms(conf, gs) ==
    IF IsExc(FirstExc(gs)) THEN FirstExc(gs)
    ELSE FieldList(conf, (-GeomMax(gs, 1)) \div 2, (GeomMax(gs, 2) \div 2) + 50)

\* lines 137-171, given n
FieldsFrom(conf, us, n) ==
    IF IsExc(n) THEN n ELSE FieldsOfGeoms(conf, UnitGeoms(us, n.i))

\* the list of lines fields returns, or the exception raised
fields(conf, us) == FieldsFrom(conf, us, longest_num(us))

-----------------------------------------------------------------------------
(* draw_pins and draw *)

pin_types ==
    << << <<"i", "n">>, "I" >>, << <<"o", "u", "t">>, "O" >>,
       << <<"b", "i", "d", "i">>, "B" >>, << <<"t", "r", "i">>, "T" >>,
       << <<"p", "a", "s", "s", "i", "v", "e">>, "P" >>,
       << <<"u", "n", "s", "p", "e", "c">>, "U" >>,
       << <<"p", "w", "r", "i", "n">>, "W" >>,
       << <<"p", "w", "r", "o", "u", "t">>, "w" >>,
       << <<"o", "c">>, "C" >>, << <<"o", "d">>, "C" >>,
       << <<"o", "e">>, "E" >>, << <<"o", "s">>, "E" >>,
       << <<"n", "c">>, "N" >> >>

\* pin_types[t]
PinType(t) ==
    IF t.ty \in {"list"} THEN Exc("TypeError")
    ELSE IF t.ty = "str" /\ \E k \in 1..Len(pin_types) : pin_types[k][1] = t.s
    THEN PyStr(<<pin_types[CHOOSE k \in 1..Len(pin_types) :
                               pin_types[k][1] = t.s][2]>>)
    ELSE Exc("KeyError")

\* the X line of one pin, given pin_types[t]
PinLineOf(pin, code, pin_x, pin_y, direction, length, unit_idx) ==
    IF IsExc(code) THEN code
    ELSE [ty |-> "X", name |-> Str(Idx(pin, 0)).s, num |-> Str(Idx(pin, 1)).s,
          x |-> pin_x, y |-> pin_y, length |-> length,
          direction |-> direction, unit |-> unit_idx, etype |-> code.s[1]]

\* one X line of draw_pins, or the exception of the unpacking or the lookup
PinLine(pin, pin_x, pin_y, direction, length, unit_idx) ==
    IF ~IsSized(pin) THEN Exc("TypeError")
    ELSE IF Len(Elems(pin)) # 3 THEN Exc("ValueError")
    ELSE PinLineOf(pin, PinType(Idx(pin, 2)), pin_x, pin_y, direction, length,
                   unit_idx)

RECURSIVE GroupLines(_, _, _, _, _, _)
\* the inner loop of draw_pins: one line per pin, pin_y -= 100 after each
GroupLines(ps, pin_x, pin_y, direction, length, unit_idx) ==
    IF Len(ps) = 0 THEN <<>>
    ELSE <<PinLine(Head(ps), pin_x, pin_y, direction, length, unit_idx)>>
         \o GroupLines(Tail(ps), pin_x, pin_y - 100, direction, length, unit_idx)

RECURSIVE SideLinesNoGap(_, _, _, _, _, _)
\* SideLines without the pin_y -= 100 that ends a group
SideLinesNoGap(groups, pin_x, pin_y, direction, length, unit_idx) ==
    IF Len(groups) = 0 THEN <<>>
    ELSE GroupLines(Elems(Head(groups)), pin_x, pin_y, direction, length, unit_idx)
         \o SideLinesNoGap(Tail(groups), pin_x,
                           pin_y - 100 * Len(Elems(Head(groups))),
                           direction, length, unit_idx)

RECURSIVE SideLines(_, _, _, _, _, _)
\* the outer loop of draw_pins: the lines of each group, pin_y -= 100 after it
SideLines(groups, pin_x, pin_y, direction, length, unit_idx) ==
    IF Len(groups) = 0 THEN <<>>
    ELSE GroupLines(Elems(Head(groups)), pin_x, pin_y, direction, length, unit_idx)
         \o SideLines(Tail(groups), pin_x,
                      pin_y - 100 * Len(Elems(Head(groups))) - 100,
                      direction, length, unit_idx)

\* the lines of a loop, or the first exception among them
LinesOrExc(lines) ==
    IF IsExc(FirstExc(lines)) THEN FirstExc(lines) ELSE PyList(lines)

\* the list of lines draw_pins returns, or the exception raised
draw_pins(groups, x0, y0, direction, length, unit_idx) ==
    LinesOrExc(SideLines(Elems(groups), x0, y0, direction, length, unit_idx))

\* UnitIndex starting at 1 whatever the number of units
UnitIndexFromOne(pos, n_units) == pos + 1

\* the unit index of the unit at position pos (from 0) among n_units
UnitIndex(pos, n_units) == IF n_units > 1 THEN pos + 1 ELSE pos

BoxLine(width, height, unit_idx) ==
    [ty |-> "S", x1 |-> (-width) \div 2, y1 |-> height \div 2,
     x2 |-> width \div 2, y2 |-> (-height) \div 2, unit |-> unit_idx]

TextLine(t) == [ty |-> "text", text |-> t]

\* lines 209-212, given the lines of each side
UnitLines(box, left, right) ==
    IF IsExc(left) THEN left
    ELSE IF IsExc(right) THEN right
    ELSE PyList(<<box>> \o left.xs \o right.xs)

\* lines 202-212, given the unit's geometry and x0, y0
DrawAt(unit, unit_idx, width, height, length, x0, y0) ==
    UnitLines(BoxLine(width, height, unit_idx),
              IF Truthy(Idx(unit, 0))
              THEN draw_pins(Idx(unit, 0), x0, y0, "R", length, unit_idx)
              ELSE PyList(<<>>),
              IF Truthy(Idx(unit, 1))
              THEN draw_pins(Idx(unit, 1), -x0, y0, "L", length, unit_idx)
              ELSE PyList(<<>>))

\* DrawWith starting the pins on the top edge of the box
DrawWithTopEdge(unit, unit_idx, g) ==
    IF IsExc(g) THEN g
    ELSE DrawAt(unit, unit_idx, g.xs[1], g.xs[2], g.xs[3],
                ((-g.xs[1]) \div 2) - g.xs[3], g.xs[2] \div 2)

\* lines 199-212, given geometry(unit, n)
DrawWith(unit, unit_idx, g) ==
    IF IsExc(g) THEN g
    ELSE DrawAt(unit, unit_idx, g.xs[1], g.xs[2], g.xs[3],
                ((-g.xs[1]) \div 2) - g.xs[3], (g.xs[2] \div 2) - 50)

\* the body of the loop of draw for one unit: its lines, or the exception
DrawUnit(unit, unit_idx, n) == DrawWith(unit, unit_idx, geometry(unit, n))

RECURSIVE Flatten(_)
Flatten(ls) == IF Len(ls) = 0 THEN <<>> ELSE Head(ls).xs \o Flatten(Tail(ls))

\* DRAW, the lines of every unit, ENDDRAW
DrawList(per) ==
    IF IsExc(FirstExc(per)) THEN FirstExc(per)
    ELSE PyList(<<TextLine("DRAW")>> \o Flatten(per) \o <<TextLine("ENDDRAW")>>)

\* lines 194-215, given n
DrawFrom(us, n) ==
    IF IsExc(n) THEN n
    ELSE DrawList([u \in 1..Len(Elems(us)) |->
                     DrawUnit(Elems(us)[u], UnitIndex(u - 1, Len(Elems(us))), n.i)])

\* the list of lines draw returns, or the exception raised
draw(us) == DrawFrom(us, longest_num(us))

-----------------------------------------------------------------------------
(* The component dictionaries the conversion is run on *)

SeqsUpTo(S, n) == UNION {[1..k -> S] : k \in 1..n}

\* the value of the key ordercodes: k (supplier, code) pairs
OrderCodes(k) == [j \in 1..k |-> << <<"supplier", j>>, <<"code", j>> >>]

\* the absent key ordercodes
NoOrderCodes == -1

\* the dictionary of the component described by d
Component(d) ==
    [name |-> "PART", pins |-> Pins(d)]
    @@ (IF d.designator THEN [designator |-> "U"] ELSE <<>>)
    @@ (IF d.footprint THEN [footprint |-> "SOIC"] ELSE <<>>)
    @@ (IF d.datasheet THEN [datasheet |-> "ds.pdf"] ELSE <<>>)
    @@ (IF d.ordercodes # NoOrderCodes
        THEN [ordercodes |-> OrderCodes(d.ordercodes)] ELSE <<>>)

\* every shape of pin description, string names, one choice of fields
ShapeInputs ==
    {[kind |-> "doc", multi |-> m, shapes |-> sh, gs |-> gs, scheme |-> "str",
      designator |-> FALSE, footprint |-> TRUE, datasheet |-> FALSE,
      ordercodes |-> 1] :
        m \in BOOLEAN, sh \in SeqsUpTo(UnitShapes, MaxUnits), gs \in GroupShapes}

\* accepted shapes, every kind of pin name, every choice of fields
FieldInputs ==
    {[kind |-> "doc", multi |-> m, shapes |-> sh, gs |-> <<2, 1>>, scheme |-> sc,
      designator |-> de, footprint |-> fo, datasheet |-> da, ordercodes |-> oc] :
        m \in BOOLEAN, sh \in SeqsUpTo(ValidUnitShapes, MaxUnits),
        sc \in NameSchemes, de \in BOOLEAN, fo \in BOOLEAN, da \in BOOLEAN,
        oc \in {NoOrderCodes} \cup 0..MaxOrderCodes}

DocInputs == {d \in ShapeInputs \cup FieldInputs : d.multi \/ Len(d.shapes) = 1}

-----------------------------------------------------------------------------
(* library, for one component *)

Init ==
    /\ inp \in DocInputs
    /\ elm = Component(inp)
    /\ pc = "start"
    /\ units = NoValue
    /\ out = <<>>
    /\ geoms = <<>>
    /\ ret = NoValue
    /\ exc = ""
    /\ gunit = NoValue
    /\ gnum = 0
    /\ gbase = 0
    /\ gret = NoValue

\* the exception r leaves library
Raise(r) == pc' = "raised" /\ exc' = r.e

NormaliseStep(r) ==
    /\ out' = <<TextLine("EESchema-LIBRARY Version 2.3"),
                TextLine("#encoding utf-8")>>
    /\ IF IsExc(r)
       THEN Raise(r) /\ units' = units
       ELSE pc' = "normalised" /\ exc' = exc /\ units' = r

\* lines 225-228: the banner, units = normalise_pins(elm['pins'])
Normalise ==
    /\ pc = "start"
    /\ NormaliseStep(normalise_pins(elm["pins"]))
    /\ UNCHANGED <<inp, elm, geoms, ret, gunit, gnum, gbase, gret>>

DefLine(name, designator, n_units) ==
    [ty |-> "DEF", name |-> name, designator |-> designator,
     n_units |-> n_units, locked |-> IF n_units = 1 THEN "F" ELSE "L"]

\* lines 229-232: the comment and the DEF line
Header ==
    /\ pc = "normalised"
    /\ out' = out \o <<TextLine(<<"#", elm["name"], "#">>),
                       DefLine(elm["name"], ConfGet(elm, "designator", "IC"),
                               Len(Elems(units)))>>
    /\ pc' = "header"
    /\ UNCHANGED <<inp, elm, units, geoms, ret, exc, gunit, gnum, gbase, gret>>

FieldsStep(r, gs) ==
    IF IsExc(r)
    THEN Raise(r) /\ out' = out /\ geoms' = geoms
    ELSE pc' = "fields" /\ exc' = exc /\ out' = out \o r.xs /\ geoms' = gs

\* line 234: out += fields(elm, units)
Fields ==
    /\ pc = "header"
    /\ FieldsStep(fields(elm, units), UnitGeoms(units, longest_num(units).i))
    /\ UNCHANGED <<inp, elm, units, ret, gunit, gnum, gbase, gret>>

DrawStep(r) ==
    IF IsExc(r)
    THEN Raise(r) /\ out' = out
    ELSE pc' = "drawn" /\ exc' = exc /\ out' = out \o r.xs

\* line 235: out += draw(units)
Draw ==
    /\ pc = "fields"
    /\ DrawStep(draw(units))
    /\ UNCHANGED <<inp, elm, units, geoms, ret, gunit, gnum, gbase, gret>>

\* lines 237-239: ENDDEF, the end banner, the joined lines returned
Return ==
    /\ pc = "drawn"
    /\ out' = out \o <<TextLine("ENDDEF"), TextLine("#End Library")>>
    /\ ret' = [ty |-> "text", lines |-> out']
    /\ pc' = "returned"
    /\ UNCHANGED <<inp, elm, units, geoms, exc, gunit, gnum, gbase, gret>>

Next == Normalise \/ Header \/ Fields \/ Draw \/ Return

Spec == Init /\ [][Next]_vars

-----------------------------------------------------------------------------
(* geometry, on its own arguments *)

GeomSide(gs, long) ==
    PyList([g \in 1..Len(gs) |->
        PyList([p \in 1..gs[g] |->
            PyList(<<PyStr(Chars("A", IF g = Len(gs) /\ p = gs[g]
                                      THEN long ELSE long \div 2)),
                     PyInt(p), PyStr(<<"i", "n">>)>>)])])

\* a normalised unit whose longest pin name has d.L characters
GeomUnit(d) ==
    PyTuple(<<IF d.sided \in {"left", "dual"}
              THEN GeomSide(d.gs, IF d.sided = "left" THEN d.L ELSE (d.L + 1) \div 2)
              ELSE PyList(<<>>),
              IF d.sided \in {"right", "dual"}
              THEN GeomSide(OtherShape(d.gs), d.L)
              ELSE PyList(<<>>)>>)

GeomInputs ==
    {[kind |-> "geom", L |-> L, sided |-> sd, gs |-> gs] :
        L \in 0..MaxNameLen, sd \in {"left", "right", "dual"}, gs \in GroupShapes}
    \cup {[kind |-> "geom", L |-> 0, sided |-> "none", gs |-> <<1>>]}

InitGeom ==
    /\ inp \in GeomInputs
    /\ gunit = GeomUnit(inp)
    /\ gnum \in 0..MaxNumLen
    /\ pc = "geom"
    /\ elm = NoValue
    /\ units = NoValue
    /\ out = <<>>
    /\ geoms = <<>>
    /\ ret = NoValue
    /\ exc = ""
    /\ gbase = 0
    /\ gret = NoValue

\* lines 64-98: one call of geometry
GeometryCall ==
    /\ pc = "geom"
    /\ gret' = geometry(gunit, gnum)
    /\ gbase' = BaseWidth(gunit, UnitMax(gunit, "name").i)
    /\ pc' = "geomdone"
    /\ UNCHANGED <<inp, elm, units, out, geoms, ret, exc, gunit, gnum>>

NextGeom == GeometryCall

SpecGeom == InitGeom /\ [][NextGeom]_vars

-----------------------------------------------------------------------------
(* Properties of geometry, checked under SpecGeom *)

RoundUp(x, m) == ((x + m - 1) \div m) * m

\* the rows one side of the unit described by d needs
RowsOf(gs) == SumInts([g \in 1..Len(gs) |-> PyInt(gs[g])]) + Len(gs) - 1

LeftRows(d) == IF d.sided \in {"left", "dual"} THEN RowsOf(d.gs) ELSE -1

RightRows(d) ==
    IF d.sided \in {"right", "dual"} THEN RowsOf(OtherShape(d.gs)) ELSE -1

Larger(a, b) == IF a >= b THEN a ELSE b

\* C1: for every unit, every longest-number length n and longest-name length
\* L from 0 to MaxNameLen, single-sided or dual-sided, geometry returns
\* length = max(100, 50*n) and a width with ((width div 2) + length) mod 100 = 0.
C1_GridAligned ==
    pc = "geomdone" =>
        /\ ~IsExc(gret)
        /\ gret.xs[3] = Larger(100, 50 * gnum)
        /\ ((gret.xs[1] \div 2) + gret.xs[3]) % 100 = 0

\* a call with the longest name and number in which the width was nudged
C1_Witness ==
    /\ pc = "geomdone"
    /\ inp.L = 20 /\ gnum = 20 /\ inp.sided = "left"
    /\ gret.xs[1] # gbase

\* C2: the height geometry returns is an odd multiple of 100: 100*R with
\* rows = max(left pins + left groups - 1, right pins + right groups - 1) and
\* R = rows if rows is odd, rows + 1 if rows is even.
C2_OddHeight ==
    pc = "geomdone" =>
        LET rows == Larger(LeftRows(inp), RightRows(inp))
            R == IF rows % 2 = 1 THEN rows ELSE rows + 1
        IN /\ ~IsExc(gret)
           /\ gret.xs[2] = 100 * R
           /\ gret.xs[2] % 100 = 0
           /\ (gret.xs[2] \div 100) % 2 = 1

\* a single left group of 2 pins gives height 300
C2_Witness ==
    /\ pc = "geomdone"
    /\ inp.sided = "left" /\ inp.gs = <<2>>
    /\ gret.xs[2] = 300

\* C3, as claimed: the width before the nudge is (L + 1) * 50 rounded up to
\* the next multiple of 200, twice that for a unit with pins on both sides.
C3_RoundedTo200 ==
    pc = "geomdone" =>
        gbase = RoundUp((inp.L + 1) * 50, 200)
                * (IF inp.sided = "dual" THEN 2 ELSE 1)

\* C3, amended: the width before the nudge is (L + 1) * 50 rounded up to the
\* next multiple of 100, twice that for a unit with pins on both sides.
C3_RoundedTo100 ==
    pc = "geomdone" =>
        gbase = RoundUp((inp.L + 1) * 50, 100)
                * (IF inp.sided = "dual" THEN 2 ELSE 1)

\* a dual-sided unit whose longest name has one character: 2 * 100
C3_Witness ==
    /\ pc = "geomdone"
    /\ inp.sided = "dual" /\ inp.L = 1
    /\ gbase = 200

-----------------------------------------------------------------------------
(* Properties of the conversion, checked under Spec *)

Terminal == {"returned", "raised"}

IsDoc == inp.kind = "doc"

\* unit u of the pin description, as the document lists it
InputUnit(u) == IF inp.multi THEN elm["pins"].xs[u] ELSE elm["pins"]

AllAccepted == \A u \in 1..Len(inp.shapes) : inp.shapes[u] \in ValidUnitShapes

SomeMalformed ==
    \E u \in 1..Len(inp.shapes) : inp.shapes[u].n = 0 \/ inp.shapes[u].n >= 3

\* the (left, right) pair the three accepted shapes stand for
ExpectedUnit(u) ==
    LET shape == inp.shapes[u]
        sides == InputUnit(u).xs
    IN IF shape.n = 1 THEN PyTuple(<<sides[1], PyList(<<>>)>>)
       ELSE IF shape.first = "marker" THEN PyTuple(<<PyList(<<>>), sides[2]>>)
       ELSE PyTuple(<<sides[1], sides[2]>>)

\* C4: normalise_pins returns one (left, right) pair per unit, in input order:
\* one pair for a single-unit input whose first pin name is a string, one per
\* listed unit for a multi-unit input; one list gives (list, []), the marker
\* and a list give ([], list), two populated lists give (first, second).
C4_Normalised ==
    (IsDoc /\ pc # "start" /\ AllAccepted
        /\ (inp.multi \/ inp.scheme \in {"str", "intlater"})) =>
        /\ units # NoValue
        /\ units.ty = "list"
        /\ Len(units.xs) = Len(inp.shapes)
        /\ \A u \in 1..Len(inp.shapes) : units.xs[u] = ExpectedUnit(u)
        /\ (~inp.multi /\ inp.shapes[1].n = 1) =>
               (Len(units.xs) = 1 /\ units.xs[1].xs[2] = PyList(<<>>))

\* a two-unit input whose first unit is right-only and second is dual-sided
C4_Witness ==
    /\ IsDoc /\ pc = "normalised"
    /\ inp.multi /\ Len(inp.shapes) = 2
    /\ inp.shapes[1] = [n |-> 2, first |-> "marker"]
    /\ inp.shapes[2] = [n |-> 2, first |-> "groups"]
    /\ units.xs[1].xs[1] = PyList(<<>>)

\* C5: whenever a unit has zero or three or more side lists, normalise_pins
\* fails with the malformed-pins error (ValueError("Invalid pins")) and
\* library returns no output.
C5_MalformedIsInvalidPins ==
    (IsDoc /\ pc \in Terminal /\ SomeMalformed) =>
        (pc = "raised" /\ exc = "ValueError" /\ ret = NoValue)

\* C7: a component whose pin names are integers is normalised to the same
\* unit structure and converted without error.
C7_IntegerNamesConvert ==
    (IsDoc /\ pc \in Terminal /\ AllAccepted /\ inp.scheme = "int") =>
        (pc = "returned" /\ Len(units.xs) = Len(inp.shapes))

\* the field lines of the output, in order
FieldLines == SelectSeq(out, LAMBDA l : l.ty = "F")

ExpectedCodes == IF inp.ordercodes = NoOrderCodes THEN 0 ELSE inp.ordercodes

\* C6: fields emits F0..F3 in that order whether or not footprint and
\* datasheet are present (empty text when absent), then one line per order
\* code, in input order, indices 4, 5, ... each with its supplier as label;
\* with no order codes exactly four lines.
C6_FieldIndices ==
    (IsDoc /\ pc \in {"fields", "drawn", "returned"}) =>
        LET F == FieldLines
        IN /\ Len(F) = 4 + ExpectedCodes
           /\ \A k \in 1..Len(F) : F[k].idx = k - 1 /\ out[4 + k] = F[k]
           /\ \A k \in 1..4 : F[k].label = <<>>
           /\ F[1].text = (IF inp.designator THEN "U" ELSE "IC")
           /\ F[2].text = "PART"
           /\ F[3].text = (IF inp.footprint THEN "SOIC" ELSE "")
           /\ F[4].text = (IF inp.datasheet THEN "ds.pdf" ELSE "")
           /\ \A j \in 1..ExpectedCodes :
                  /\ F[4 + j].text = <<"code", j>>
                  /\ F[4 + j].label = << <<"supplier", j>> >>

\* two order codes, neither footprint nor datasheet
C6_Witness ==
    /\ IsDoc /\ pc = "fields"
    /\ inp.ordercodes = 2 /\ ~inp.footprint /\ ~inp.datasheet
    /\ Len(FieldLines) = 6

\* the box and pin lines of the output, in order
Drawn == SelectSeq(out, LAMBDA l : l.ty \in {"S", "X"})

\* the position among the units of the unit whose box line precedes line j
Owner(D, j) == Cardinality({i \in 1..j : D[i].ty = "S"})

\* the lines at the positions js of D, in order
Pick(D, js) ==
    [k \in 1..Cardinality(js) |->
        D[CHOOSE j \in js : Cardinality({m \in js : m < j}) = k - 1]]

\* the box line of the i-th unit
BoxOf(D, i) == D[CHOOSE j \in 1..Len(D) : D[j].ty = "S" /\ Owner(D, j) = i]

\* the pin lines of the i-th unit that point in direction dir
PinsOf(D, i, dir) ==
    Pick(D, {j \in 1..Len(D) :
                D[j].ty = "X" /\ D[j].direction = dir /\ Owner(D, j) = i})

RECURSIVE FlatPins(_, _)
\* the pins of a list of groups, in order, each with the position of its group
FlatPins(groups, g) ==
    IF Len(groups) = 0 THEN <<>>
    ELSE [p \in 1..Len(Head(groups).xs) |-> [pin |-> Head(groups).xs[p], g |-> g]]
         \o FlatPins(Tail(groups), g + 1)

\* C8: with one unit the box line and every pin line carry unit index 0;
\* with k > 1 units the lines of the i-th unit carry i, the indices used
\* being exactly 1..k.
C8_UnitIndices ==
    (IsDoc /\ pc \in {"drawn", "returned"}) =>
        LET D == Drawn
            k == Len(units.xs)
        IN /\ Cardinality({j \in 1..Len(D) : D[j].ty = "S"}) = k
           /\ D[1].ty = "S"
           /\ \A j \in 1..Len(D) :
                  D[j].unit = (IF k = 1 THEN 0 ELSE Owner(D, j))
           /\ \A i \in 1..k :
                  Len(PinsOf(D, i, "R")) + Len(PinsOf(D, i, "L"))
                      = Len(FlatPins(units.xs[i].xs[1].xs, 1))
                        + Len(FlatPins(units.xs[i].xs[2].xs, 1))
           /\ k > 1 => {D[j].unit : j \in 1..Len(D)} = 1..k

\* a component of two units, the second with pins
C8_Witness ==
    /\ IsDoc /\ pc = "drawn"
    /\ Len(units.xs) = 2
    /\ \E j \in 1..Len(Drawn) : Drawn[j].ty = "X" /\ Drawn[j].unit = 2

\* the lines of one side are its pins in input order, the first at
\* height/2 - 50, 100 below the previous pin of the same group, 200 below
\* the last pin of the previous group
SideInOrder(lines, side, height) ==
    LET E == FlatPins(side.xs, 1)
    IN /\ Len(lines) = Len(E)
       /\ \A j \in 1..Len(E) :
              /\ lines[j].name = Str(E[j].pin.xs[1]).s
              /\ lines[j].num = Str(E[j].pin.xs[2]).s
              /\ j = 1 => lines[j].y = (height \div 2) - 50
              /\ j > 1 => /\ lines[j].y < lines[j - 1].y
                          /\ lines[j].y = lines[j - 1].y
                                 - (IF E[j].g = E[j - 1].g THEN 100 ELSE 200)

\* C9: for each side of each unit draw_pins emits the pins in input order
\* with strictly decreasing y, the first at height/2 - 50, 100 apart within
\* a group and 200 from one group to the next; the right side follows the
\* same rule at the mirrored x.
C9_PinOrder ==
    (IsDoc /\ pc \in {"drawn", "returned"}) =>
        LET D == Drawn
        IN \A i \in 1..Len(units.xs) :
              LET box == BoxOf(D, i)
                  left == PinsOf(D, i, "R")
                  right == PinsOf(D, i, "L")
                  height == geoms[i].xs[2]
              IN /\ SideInOrder(left, units.xs[i].xs[1], height)
                 /\ SideInOrder(right, units.xs[i].xs[2], height)
                 /\ \A j \in 1..Len(left) :
                        left[j].x = box.x1 - left[j].length
                 /\ \A j \in 1..Len(right) :
                        right[j].x = -(box.x1 - right[j].length)

\* a unit with two groups on its left side and pins on its right side
C9_Witness ==
    /\ IsDoc /\ pc = "drawn"
    /\ inp.gs = <<2, 1>> /\ inp.shapes[1] = [n |-> 2, first |-> "groups"]
    /\ Len(PinsOf(Drawn, 1, "R")) = 3 /\ Len(PinsOf(Drawn, 1, "L")) = 3

\* C10: every pin line of a unit lies inside the vertical extent of the
\* unit's own box, -height/2 + 50 <= y <= height/2 - 50, and its x and y are
\* multiples of 100.
C10_PinsOnGridInBox ==
    (IsDoc /\ pc \in {"drawn", "returned"}) =>
        LET D == Drawn
        IN \A j \in 1..Len(D) :
              D[j].ty = "X" =>
                  LET box == BoxOf(D, Owner(D, j))
                  IN /\ box.y2 + 50 <= D[j].y
                     /\ D[j].y <= box.y1 - 50
                     /\ box.y1 = -box.y2
                     /\ D[j].x % 100 = 0
                     /\ D[j].y % 100 = 0

\* a pin on the lowest row of its box, with a stub longer than 100
C10_Witness ==
    /\ IsDoc /\ pc = "drawn"
    /\ \E j \in 1..Len(Drawn) :
           /\ Drawn[j].ty = "X"
           /\ Drawn[j].length = 150
           /\ Drawn[j].y = BoxOf(Drawn, Owner(Drawn, j)).y2 + 50

====
